---- MODULE Spec2Model ----
(***************************************************************************)
(* A model of github_trending_feishu_card.py: the trending page parser     *)
(* (fetch_trending), the source tag (build_source_tag), the row and card   *)
(* builders (build_bitable_records, build_feishu_card), the table writer   *)
(* (write_records_to_bitable, get_tenant_access_token), the card sender    *)
(* (send_card_to_feishu) and the control flow of main.                     *)
(*                                                                         *)
(* Text that the program takes apart (hrefs, star figures, the language    *)
(* filter) is a sequence of one-character strings.  An optional value is a *)
(* sequence of length at most one: None is << >>, Some(v) is <<v>>.        *)
(***************************************************************************)
EXTENDS Integers, Sequences, FiniteSets, TLC

VARIABLES
    pc,        \* position of the run
    argv,      \* the command line: [since, limit, language, webhook, help]
    env,       \* the environment: [webhook, app_id, app_secret, app_token, table_id]
    now,       \* datetime.now(timezone.utc) as [y, m, d]
    args,      \* the parsed namespace: [language, since, limit, webhook]
    webhook_url,
    page,      \* the listing page: a sequence of article.Box-row blocks
    repos,     \* the extracted records
    records,   \* the table rows
    card,      \* the card; card.entries are its per-record entries
    tag,       \* the result of build_source_tag
    token,     \* the bearer token, once obtained
    calls,     \* outbound requests issued so far, each with its outcome
    trace,     \* components executed so far
    writeErr,  \* the except clause of the table write has run
    exitCode   \* the process exit status, None while running

vars == <<pc, argv, env, now, args, webhook_url, page, repos, records, card,
          tag, token, calls, trace, writeErr, exitCode>>

None == << >>
Some(v) == <<v>>
IsNone(o) == o = << >>
Val(o) == o[1]

----------------------------------------------------------------------------
(* Bounds of the model *)

\* longest star-figure text enumerated exhaustively
MaxText == 3
\* most blocks on a listing page
MaxBlocks == 3
\* most records handed to the row and card builders
MaxRepos == 3
\* --limit ranges over -MaxLimit .. MaxLimit
MaxLimit == 4
\* the run date ranges over the years 2024 .. 2024 + YearSpan
YearSpan == 4

----------------------------------------------------------------------------
(* Python string and integer primitives *)

Digits == {"0", "1", "2", "3", "4", "5", "6", "7", "8", "9"}

DigitVal(c) ==
    CASE c = "0" -> 0 [] c = "1" -> 1 [] c = "2" -> 2 [] c = "3" -> 3
      [] c = "4" -> 4 [] c = "5" -> 5 [] c = "6" -> 6 [] c = "7" -> 7
      [] c = "8" -> 8 [] c = "9" -> 9

RECURSIVE LStripChar(_, _)
\* str.lstrip(c)
LStripChar(s, c) ==
    IF s # << >> /\ Head(s) = c THEN LStripChar(Tail(s), c) ELSE s

RECURSIVE RStripChar(_, _)
RStripChar(s, c) ==
    IF s # << >> /\ s[Len(s)] = c THEN RStripChar(SubSeq(s, 1, Len(s) - 1), c) ELSE s

\* str.strip() over the modelled alphabet, whose only whitespace is " "
Strip(s) == RStripChar(LStripChar(s, " "), " ")

\* str.replace(c, "")
Remove(s, c) == SelectSeq(s, LAMBDA x : x # c)

\* "c in s"
Contains(s, c) == \E i \in 1 .. Len(s) : s[i] = c

\* index of the first c in s; Len(s) + 1 when there is none
FirstIndex(s, c) ==
    IF Contains(s, c)
    THEN CHOOSE i \in 1 .. Len(s) : s[i] = c /\ \A j \in 1 .. i - 1 : s[j] # c
    ELSE Len(s) + 1

\* s.split(c)[0]
SplitFirst(s, c) == SubSeq(s, 1, FirstIndex(s, c) - 1)

RECURSIVE DigitsValue(_)
DigitsValue(ds) ==
    IF ds = << >> THEN 0
    ELSE 10 * DigitsValue(SubSeq(ds, 1, Len(ds) - 1)) + DigitVal(ds[Len(ds)])

\* int(s): Some(n), or None where Python raises ValueError.  Surrounding
\* whitespace is ignored, one sign is allowed, the rest must be decimal digits.
PyInt(s) ==
    LET t == Strip(s)
        signed == t # << >> /\ Head(t) \in {"-", "+"}
        body == IF signed THEN Tail(t) ELSE t
    IN  IF body # << >> /\ \A i \in 1 .. Len(body) : body[i] \in Digits
        THEN Some((IF signed /\ Head(t) = "-" THEN -1 ELSE 1) * DigitsValue(body))
        ELSE None

----------------------------------------------------------------------------
(* fetch_trending: the record extractor *)

\* a parser that falls back to zero where int() raises
ParseFigure_ZeroDefault(text) == IF PyInt(text) = None THEN Some(0) ELSE PyInt(text)

\* the try/except around int() of a star figure (lines 110-113, 123-126)
ParseFigure(text) == PyInt(text)

\* lines 106-113: the total-star figure of a block
StarsOf(item) ==
    IF IsNone(item.starText) THEN None
    ELSE ParseFigure(Remove(Strip(Val(item.starText)), ","))

\* lines 116-126: the period-star figure of a block
StarsTodayOf(item) ==
    IF IsNone(item.todayText) THEN None
    ELSE ParseFigure(Remove(SplitFirst(Strip(Val(item.todayText)), " "), ","))

\* lines 83-88: the block has an h2 holding a link with a non-empty href
HasTitle(item) == item.h2 /\ item.a /\ ~IsNone(item.href) /\ Val(item.href) # << >>

\* lines 90-137: the record of a block that has a title
ExtractBlock(item) ==
    LET repo_path == Strip(Val(item.href))
    IN  [name        |-> LStripChar(repo_path, "/"),
         url         |-> <<"https://github.com">> \o repo_path,
         description |-> IF ~IsNone(item.p_col9) THEN Val(item.p_col9)
                         ELSE IF ~IsNone(item.p) THEN Val(item.p) ELSE "",
         language    |-> IF IsNone(item.lang) THEN "" ELSE Val(item.lang),
         stars       |-> StarsOf(item),
         stars_today |-> StarsTodayOf(item)]

RECURSIVE ExtractAll_Break(_)
\* a loop that stops at the first block without a title
ExtractAll_Break(items) ==
    IF items = << >> THEN << >>
    ELSE IF HasTitle(Head(items))
         THEN <<ExtractBlock(Head(items))>> \o ExtractAll_Break(Tail(items))
         ELSE << >>

RECURSIVE ExtractAll(_)
\* lines 79-139: the loop over the blocks of the page
ExtractAll(items) ==
    IF items = << >> THEN << >>
    ELSE IF HasTitle(Head(items))
         THEN <<ExtractBlock(Head(items))>> \o ExtractAll(Tail(items))
         ELSE ExtractAll(Tail(items))

----------------------------------------------------------------------------
(* datetime: the proleptic Gregorian ordinal and date.isocalendar() *)

IsLeap(y) == y % 4 = 0 /\ (y % 100 # 0 \/ y % 400 = 0)

DaysInMonth(y, m) ==
    IF m = 2 THEN (IF IsLeap(y) THEN 29 ELSE 28)
    ELSE IF m \in {4, 6, 9, 11} THEN 30 ELSE 31

\* _days_before_year
DaysBeforeYear(y) ==
    LET y1 == y - 1 IN y1 * 365 + (y1 \div 4) - (y1 \div 100) + (y1 \div 400)

RECURSIVE DaysBeforeMonth(_, _)
\* _days_before_month
DaysBeforeMonth(y, m) ==
    IF m = 1 THEN 0 ELSE DaysBeforeMonth(y, m - 1) + DaysInMonth(y, m - 1)

\* _ymd2ord: 0001-01-01 is day 1
Ymd2Ord(y, m, d) == DaysBeforeYear(y) + DaysBeforeMonth(y, m) + d

\* _isoweek1monday: the ordinal of the Monday that starts ISO week 1 of year y
IsoWeek1Monday(y) ==
    LET firstday == Ymd2Ord(y, 1, 1)
        firstweekday == (firstday + 6) % 7
        week1monday == firstday - firstweekday
    IN  IF firstweekday > 3 THEN week1monday + 7 ELSE week1monday

\* an isocalendar that takes the calendar year for the ISO year
IsoCalendar_CalendarYear(dt) ==
    LET today == Ymd2Ord(dt.y, dt.m, dt.d)
        w == (today - IsoWeek1Monday(dt.y)) \div 7
    IN  [year |-> dt.y, week |-> w + 1]

\* date.isocalendar(): the ISO year and ISO week of dt
IsoCalendar(dt) ==
    LET year == dt.y
        today == Ymd2Ord(dt.y, dt.m, dt.d)
        week == (today - IsoWeek1Monday(year)) \div 7
    IN  IF week < 0
        THEN [year |-> year - 1,
              week |-> ((today - IsoWeek1Monday(year - 1)) \div 7) + 1]
        ELSE IF week >= 52 /\ today >= IsoWeek1Monday(year + 1)
        THEN [year |-> year + 1, week |-> 1]
        ELSE [year |-> year, week |-> week + 1]

----------------------------------------------------------------------------
(* formatting *)

DigitChar(n) ==
    CASE n = 0 -> "0" [] n = 1 -> "1" [] n = 2 -> "2" [] n = 3 -> "3"
      [] n = 4 -> "4" [] n = 5 -> "5" [] n = 6 -> "6" [] n = 7 -> "7"
      [] n = 8 -> "8" [] n = 9 -> "9"

RECURSIVE NatStr(_)
NatStr(n) == IF n < 10 THEN <<DigitChar(n)>> ELSE NatStr(n \div 10) \o <<DigitChar(n % 10)>>

\* str(n) / f"{n}"
Str(n) == IF n < 0 THEN <<"-">> \o NatStr(-n) ELSE NatStr(n)

RECURSIVE ZeroPad(_, _)
\* f"{n:0wd}", strftime's zero-padded fields
ZeroPad(s, w) == IF Len(s) >= w THEN s ELSE ZeroPad(<<"0">> \o s, w)

LowerChar(c) ==
    CASE c = "G" -> "g" [] c = "O" -> "o" [] c = "R" -> "r" [] OTHER -> c

\* str.lower()
Lower(s) == [i \in 1 .. Len(s) |-> LowerChar(s[i])]

\* "x or default" for an optional string: None and "" are both falsy
OrElse(o, default) == IF IsNone(o) \/ Val(o) = << >> THEN default ELSE Val(o)

----------------------------------------------------------------------------
(* build_source_tag, current_date_ms *)

\* line 165
LangKey(language) == Lower(OrElse(language, <<"a", "l", "l">>))

\* lines 162-175, with datetime.now(timezone.utc) passed in as dt
build_source_tag(since, language, dt) ==
    LET lang_key == LangKey(language)
    IN  IF since = "weekly"
        THEN LET iso == IsoCalendar(dt)
             IN  <<"github-trending", ":", "weekly", ":">> \o Str(iso.year)
                   \o <<"-", "W">> \o ZeroPad(Str(iso.week), 2) \o <<":">> \o lang_key
        ELSE IF since = "monthly"
        THEN <<"github-trending", ":", "monthly", ":">> \o ZeroPad(Str(dt.y), 4)
               \o <<"-">> \o ZeroPad(Str(dt.m), 2) \o <<":">> \o lang_key
        ELSE <<"github-trending", ":", "daily", ":">> \o ZeroPad(Str(dt.y), 4)
               \o <<"-">> \o ZeroPad(Str(dt.m), 2) \o <<"-">> \o ZeroPad(Str(dt.d), 2)
               \o <<":">> \o lang_key

\* lines 178-182: midnight UTC of the run date.  The program multiplies the day
\* count since 1970-01-01 by 86 400 000 ms; Python integers do not overflow and
\* the model keeps the day count.
current_date_ms(dt) == Ymd2Ord(dt.y, dt.m, dt.d) - Ymd2Ord(1970, 1, 1)

----------------------------------------------------------------------------
(* build_bitable_records, build_feishu_card *)

\* s[:k] of a Python list: a negative k counts from the end
Slice(s, k) ==
    IF k >= 0 THEN SubSeq(s, 1, IF k < Len(s) THEN k ELSE Len(s))
    ELSE SubSeq(s, 1, IF Len(s) + k > 0 THEN Len(s) + k ELSE 0)

\* lines 203-228: the row of the idx-th record
BitableRow(repo, idx, date_ms, source) ==
    LET full_name == repo.name
    IN  [Rank           |-> idx,
         Repo           |-> full_name,
         Owner          |-> IF Contains(full_name, "/") THEN SplitFirst(full_name, "/")
                            ELSE full_name,
         SpokenLanguage |-> "all",
         Language       |-> repo.language,
         Stars          |-> IF IsNone(repo.stars) THEN 0 ELSE Val(repo.stars),
         TodayStars     |-> IF IsNone(repo.stars_today) THEN 0 ELSE Val(repo.stars_today),
         Description    |-> repo.description,
         URL            |-> [link |-> repo.url, text |-> full_name],
         Date           |-> date_ms,
         Source         |-> source]

\* lines 185-230
build_bitable_records(rs, language, since, limit, dt) ==
    LET taken == Slice(rs, limit)
    IN  [i \in 1 .. Len(taken) |->
            BitableRow(taken[i], i, current_date_ms(dt),
                       build_source_tag(since, language, dt))]

\* lines 309-314: the star part of a card entry
StarsStr(repo) ==
    LET total == IF IsNone(repo.stars) THEN << >>
                 ELSE <<"stars", " ">> \o Str(Val(repo.stars))
        today == IF IsNone(repo.stars_today) THEN << >>
                 ELSE <<"+">> \o Str(Val(repo.stars_today)) \o <<" ", "today">>
    IN  IF total = << >> /\ today = << >> THEN <<"stars: N/A">>
        ELSE IF total = << >> THEN today
        ELSE IF today = << >> THEN total
        ELSE total \o <<" · ">> \o today

\* lines 302-330: the card entry of the idx-th record.  The descriptions of the
\* model are single words shorter than the width textwrap.shorten cuts at, which
\* it returns unchanged.
CardEntry(repo, idx) ==
    [tag        |-> "markdown",
     idx        |-> idx,
     name       |-> repo.name,
     stars_str  |-> StarsStr(repo),
     lang       |-> IF repo.language = "" THEN "Unknown" ELSE repo.language,
     short_desc |-> IF repo.description = "" THEN "(no description)"
                    ELSE repo.description,
     url        |-> repo.url]

\* lines 274-278
SinceLabel(since) ==
    CASE since = "daily" -> "Daily" [] since = "weekly" -> "Weekly"
      [] since = "monthly" -> "Monthly" [] OTHER -> since

\* lines 265-359: the card; body.elements is head \o entries \o foot
build_feishu_card(rs, language, since, limit) ==
    LET taken == Slice(rs, limit)
    IN  [schema |-> "2.0",
         header |-> [title |-> <<"GitHub Trending · ", SinceLabel(since)>>,
                     template |-> "blue"],
         head   |-> << [tag |-> "markdown",
                        language |-> OrElse(language, <<"All Languages">>),
                        period |-> SinceLabel(since),
                        source |-> "https://github.com/trending"],
                       [tag |-> "hr"],
                       [tag |-> "markdown", top |-> limit] >>,
         entries |-> [i \in 1 .. Len(taken) |-> CardEntry(taken[i], i)],
         foot   |-> << [tag |-> "hr"],
                       [tag |-> "button", type |-> "primary",
                        url |-> "https://github.com/trending"] >>]

----------------------------------------------------------------------------
(* Inputs *)

\* the sequences over S of length at most n
SeqsUpTo(S, n) == UNION {[1 .. k -> S] : k \in 0 .. n}

TextAlphabet == {"5", "0", ",", "-", "+", " ", "k"}

\* every star-figure text of length at most MaxText
Texts == SeqsUpTo(TextAlphabet, MaxText)

\* a few figures as the page prints them, and an absent element
SampleFigures ==
    {None, Some(<<"5">>), Some(<<"1", ",", "5">>), Some(<<"5", " ", "k">>),
     Some(<<"-", "5">>), Some(<<"k">>)}

Block(h2, a, href, p_col9, p, lang, starText, todayText) ==
    [h2 |-> h2, a |-> a, href |-> href, p_col9 |-> p_col9, p |-> p, lang |-> lang,
     starText |-> starText, todayText |-> todayText]

BlockAB ==
    Block(TRUE, TRUE, Some(<<"/", "a", "/", "b">>), Some("tool"), Some("tool"),
          Some("Go"), Some(<<"1", ",", "5">>), Some(<<"5", " ", "k">>))
BlockCD ==
    Block(TRUE, TRUE, Some(<<" ", "/", "c", "/", "d">>), None, Some("lib"), None,
          Some(<<"k">>), None)
BlockE ==
    Block(TRUE, TRUE, Some(<<"/", "e">>), None, None, Some("Rust"), None,
          Some(<<"-", "5">>))
BlockNoH2 ==
    Block(FALSE, FALSE, None, Some("ad"), None, None, Some(<<"5">>), Some(<<"5">>))
BlockNoLink ==
    Block(TRUE, FALSE, None, None, None, None, None, None)
BlockNoHref ==
    Block(TRUE, TRUE, None, None, None, None, None, None)
BlockEmptyHref ==
    Block(TRUE, TRUE, Some(<< >>), None, None, None, None, None)

WellFormedBlocks == {BlockAB, BlockCD, BlockE}

\* pages that interleave well-formed blocks with blocks lacking a title
InterleavedPages ==
    SeqsUpTo(WellFormedBlocks \cup {BlockNoH2, BlockNoLink, BlockNoHref, BlockEmptyHref},
             MaxBlocks)

\* one-block pages whose total-star or period-star text is any text
RichPages ==
    {<<[BlockAB EXCEPT !.starText = Some(t), !.todayText = f]>> :
        t \in Texts, f \in SampleFigures}
    \cup {<<[BlockAB EXCEPT !.starText = f, !.todayText = Some(t)]>> :
        t \in Texts, f \in SampleFigures}

FetchPages == InterleavedPages \cup RichPages

\* the pages the whole-run model answers the trending GET with
MainPages == SeqsUpTo({BlockAB, BlockCD, BlockNoH2}, MaxBlocks)

\* the record lists handed to the builders: what the extractor returns
RepoLists == {ExtractAll(pg) : pg \in SeqsUpTo(WellFormedBlocks, MaxRepos)}

Languages == {None, Some(<< >>), Some(<<"g", "o">>), Some(<<"G", "o">>), Some(<<"R">>)}

Periods == {"daily", "weekly", "monthly"}

Dates ==
    {[y |-> y, m |-> m, d |-> d] :
        y \in 2024 .. (2024 + YearSpan), m \in 1 .. 12, d \in 1 .. 31}

ValidDates == {dt \in Dates : dt.d <= DaysInMonth(dt.y, dt.m)}

\* a run date of the whole-run and builder models
SomeDate == [y |-> 2026, m |-> 11, d |-> 2]

\* --limit on the command line: absent, an integer, or not an integer
LimitArg(given, isInt, n) == [given |-> given, int |-> isInt, n |-> n]

LimitArgs ==
    {LimitArg(FALSE, TRUE, 0), LimitArg(TRUE, FALSE, 0)}
    \cup {LimitArg(TRUE, TRUE, n) : n \in {-1, 0, 2}}

Argvs ==
    [since    : {None, Some("weekly"), Some("hourly")},
     limit    : LimitArgs,
     language : {None},
     webhook  : {None, Some(""), Some("https://hook/a")},
     help     : BOOLEAN]

Envs ==
    [webhook   : {None, Some("https://hook/e")},
     app_id    : {None, Some(""), Some("id")},
     app_secret: {None, Some("secret")},
     app_token : {None, Some("app")},
     table_id  : {None, Some("tbl")}]

NoArgv == [since |-> None, limit |-> LimitArg(FALSE, TRUE, 0), language |-> None,
           webhook |-> None, help |-> FALSE]
NoEnv == [webhook |-> None, app_id |-> None, app_secret |-> None, app_token |-> None,
          table_id |-> None]
NoArgs == [language |-> None, since |-> "daily", limit |-> 0, webhook |-> None]
NoCard == [entries |-> << >>]

\* Python truthiness of an optional string
Truthy(o) == ~IsNone(o) /\ Val(o) # ""

----------------------------------------------------------------------------
(* fetch_trending on a page *)

InitFetch ==
    /\ pc = "fetch_start"
    /\ page \in FetchPages
    /\ argv = NoArgv /\ env = NoEnv /\ now = SomeDate /\ args = NoArgs
    /\ webhook_url = None /\ repos = << >> /\ records = << >> /\ card = NoCard
    /\ tag = << >> /\ token = None /\ calls = << >> /\ trace = << >>
    /\ writeErr = FALSE /\ exitCode = None

\* lines 76-139: parse the page that was fetched
Extract ==
    /\ pc = "fetch_start"
    /\ repos' = ExtractAll(page)
    /\ pc' = "fetch_done"
    /\ UNCHANGED <<argv, env, now, args, webhook_url, page, records, card, tag, token,
                   calls, trace, writeErr, exitCode>>

NextFetch == Extract

SpecFetch == InitFetch /\ [][NextFetch]_vars

----------------------------------------------------------------------------
(* build_source_tag on a run date *)

InitTag ==
    /\ pc = "tag_start"
    /\ now \in ValidDates
    /\ \E l \in Languages, p \in Periods :
          args = [language |-> l, since |-> p, limit |-> 0, webhook |-> None]
    /\ argv = NoArgv /\ env = NoEnv /\ page = << >>
    /\ webhook_url = None /\ repos = << >> /\ records = << >> /\ card = NoCard
    /\ tag = << >> /\ token = None /\ calls = << >> /\ trace = << >>
    /\ writeErr = FALSE /\ exitCode = None

BuildTag ==
    /\ pc = "tag_start"
    /\ tag' = build_source_tag(args.since, args.language, now)
    /\ pc' = "tag_done"
    /\ UNCHANGED <<argv, env, now, args, webhook_url, page, repos, records, card, token,
                   calls, trace, writeErr, exitCode>>

NextTag == BuildTag

SpecTag == InitTag /\ [][NextTag]_vars

----------------------------------------------------------------------------
(* build_bitable_records and build_feishu_card on a record list *)

InitBuild ==
    /\ pc = "build_start"
    /\ repos \in RepoLists
    /\ \E k \in (0 - MaxLimit) .. MaxLimit :
          args = [language |-> None, since |-> "daily", limit |-> k, webhook |-> None]
    /\ now = SomeDate
    /\ argv = NoArgv /\ env = NoEnv /\ page = << >>
    /\ webhook_url = None /\ records = << >> /\ card = NoCard
    /\ tag = << >> /\ token = None /\ calls = << >> /\ trace = << >>
    /\ writeErr = FALSE /\ exitCode = None

BuildRows ==
    /\ pc = "build_start"
    /\ records' = build_bitable_records(repos, args.language, args.since, args.limit, now)
    /\ pc' = "rows_done"
    /\ UNCHANGED <<argv, env, now, args, webhook_url, page, repos, card, tag, token,
                   calls, trace, writeErr, exitCode>>

BuildCardOf ==
    /\ pc = "rows_done"
    /\ card' = build_feishu_card(repos, args.language, args.since, args.limit)
    /\ pc' = "card_done"
    /\ UNCHANGED <<argv, env, now, args, webhook_url, page, repos, records, tag, token,
                   calls, trace, writeErr, exitCode>>

NextBuild == BuildRows \/ BuildCardOf

SpecBuild == InitBuild /\ [][NextBuild]_vars

----------------------------------------------------------------------------
(* main: one run of the program *)

\* the default of --limit (line 406)
DefaultLimit == 10

\* the outcomes of an HTTP exchange: the request raises, raise_for_status
\* raises, the body's code is not 0, or the call succeeds
GetOutcomes == {"transport_error", "http_error", "ok"}
PostOutcomes == {"transport_error", "http_error", "code_nonzero", "ok"}

Call(req, result) == [req |-> req, result |-> result]

\* a resolution of the webhook URL that reads the command line only
WebhookOf_ArgOnly(a, e) == a.webhook

\* line 421: args.webhook or os.getenv("FEISHU_WEBHOOK_URL")
WebhookOf(a, e) == IF Truthy(a.webhook) THEN a.webhook ELSE e.webhook

\* a check that lets a missing webhook URL through
MissingWebhook_Never(url) == FALSE

\* line 422: "not webhook_url"
MissingWebhook(url) == ~Truthy(url)

\* lines 441-443
bitable_ready(e) ==
    Truthy(e.app_id) /\ Truthy(e.app_secret) /\ Truthy(e.app_token) /\ Truthy(e.table_id)

\* a writer without the empty-list guard
NoRecords_Never(rs) == FALSE

\* line 235: "not records"
NoRecords(rs) == rs = << >>

\* a handler that gives the table write another try
AfterWriteError_Retry == [pc |-> "write", exitCode |-> None]

\* a handler that ends the run
AfterWriteError_Abort == [pc |-> "exited", exitCode |-> Some(1)]

\* lines 458-459: the except clause of the table write prints and goes on
AfterWriteError == [pc |-> "card", exitCode |-> None]

InitMain ==
    /\ pc = "start"
    /\ argv \in Argvs
    /\ env \in Envs
    /\ now = SomeDate
    /\ args = NoArgs /\ page = << >>
    /\ webhook_url = None /\ repos = << >> /\ records = << >> /\ card = NoCard
    /\ tag = << >> /\ token = None /\ calls = << >> /\ trace = << >>
    /\ writeErr = FALSE /\ exitCode = None

\* sys.exit(code)
Exit(code) == pc' = "exited" /\ exitCode' = Some(code)

\* lines 386-415, 419: argparse prints the help and exits 0 on --help, and exits 2
\* on a --since outside the choices or a --limit that is no integer; when both
\* are on the command line the one that comes first decides
ParseArgs ==
    /\ pc = "start"
    /\ LET rejected == (~IsNone(argv.since) /\ Val(argv.since) \notin Periods)
                       \/ (argv.limit.given /\ ~argv.limit.int)
       IN  IF argv.help \/ rejected
           THEN /\ \E code \in {0, 2} :
                      /\ code = 0 => argv.help
                      /\ code = 2 => rejected
                      /\ Exit(code)
                /\ UNCHANGED args
           ELSE /\ args' = [language |-> argv.language,
                            since    |-> IF IsNone(argv.since) THEN "daily"
                                         ELSE Val(argv.since),
                            limit    |-> IF argv.limit.given THEN argv.limit.n
                                         ELSE DefaultLimit,
                            webhook  |-> argv.webhook]
                /\ pc' = "webhook"
                /\ UNCHANGED exitCode
    /\ UNCHANGED <<argv, env, now, webhook_url, page, repos, records, card, tag, token,
                   calls, trace, writeErr>>

\* lines 421-428
ResolveWebhook ==
    /\ pc = "webhook"
    /\ webhook_url' = WebhookOf(args, env)
    /\ IF MissingWebhook(webhook_url')
       THEN Exit(1)
       ELSE pc' = "fetch" /\ UNCHANGED exitCode
    /\ UNCHANGED <<argv, env, now, args, page, repos, records, card, tag, token,
                   calls, trace, writeErr>>

\* lines 430-434 with fetch_trending (lines 68-139): one GET, then the parse
FetchTrending ==
    /\ pc = "fetch"
    /\ \E outcome \in GetOutcomes, pg \in MainPages :
          /\ calls' = Append(calls, Call("GET", outcome))
          /\ IF outcome = "ok"
             THEN /\ page' = pg
                  /\ repos' = ExtractAll(pg)
                  /\ trace' = trace \o <<"Fetcher", "Extractor">>
                  /\ pc' = "check"
                  /\ UNCHANGED exitCode
             ELSE /\ pg = << >>
                  /\ trace' = Append(trace, "Fetcher")
                  /\ Exit(1)
                  /\ UNCHANGED <<page, repos>>
    /\ UNCHANGED <<argv, env, now, args, webhook_url, records, card, tag, token,
                   writeErr>>

\* lines 436-438
CheckRepos ==
    /\ pc = "check"
    /\ IF repos = << >> THEN Exit(0) ELSE pc' = "bitable" /\ UNCHANGED exitCode
    /\ UNCHANGED <<argv, env, now, args, webhook_url, page, repos, records, card, tag,
                   token, calls, trace, writeErr>>

\* lines 441-449
BitableGate ==
    /\ pc = "bitable"
    /\ pc' = IF bitable_ready(env) THEN "records" ELSE "card"
    /\ UNCHANGED <<argv, env, now, args, webhook_url, page, repos, records, card, tag,
                   token, calls, trace, writeErr, exitCode>>

\* lines 451-456
BuildRecords ==
    /\ pc = "records"
    /\ records' = build_bitable_records(repos, args.language, args.since, args.limit, now)
    /\ trace' = Append(trace, "TableWriter")
    /\ pc' = "write"
    /\ UNCHANGED <<argv, env, now, args, webhook_url, page, repos, card, tag, token,
                   calls, writeErr, exitCode>>

\* lines 235-239: the writer returns on an empty list and raises without the
\* table's app token and id
WriteRecords ==
    /\ pc = "write"
    /\ IF NoRecords(records)
       THEN pc' = "card" /\ UNCHANGED <<writeErr, exitCode>>
       ELSE IF ~(Truthy(env.app_token) /\ Truthy(env.table_id))
       THEN /\ pc' = AfterWriteError.pc
            /\ exitCode' = AfterWriteError.exitCode
            /\ writeErr' = TRUE
       ELSE pc' = "token" /\ UNCHANGED <<writeErr, exitCode>>
    /\ UNCHANGED <<argv, env, now, args, webhook_url, page, repos, records, card, tag,
                   token, calls, trace>>

\* lines 144-159, called at line 241
GetToken ==
    /\ pc = "token"
    /\ trace' = Append(trace, "TokenProvider")
    /\ IF ~(Truthy(env.app_id) /\ Truthy(env.app_secret))
       THEN /\ pc' = AfterWriteError.pc
            /\ exitCode' = AfterWriteError.exitCode
            /\ writeErr' = TRUE
            /\ UNCHANGED <<token, calls>>
       ELSE \E outcome \in PostOutcomes :
               /\ calls' = Append(calls, Call("TOKEN", outcome))
               /\ IF outcome = "ok"
                  THEN /\ token' = Some("tenant_access_token")
                       /\ pc' = "batch"
                       /\ UNCHANGED <<writeErr, exitCode>>
                  ELSE /\ pc' = AfterWriteError.pc
                       /\ exitCode' = AfterWriteError.exitCode
                       /\ writeErr' = TRUE
                       /\ UNCHANGED token
    /\ UNCHANGED <<argv, env, now, args, webhook_url, page, repos, records, card, tag>>

\* lines 242-260
BatchCreate ==
    /\ pc = "batch"
    /\ \E outcome \in PostOutcomes :
          /\ calls' = Append(calls, Call("BATCH", outcome))
          /\ IF outcome = "ok"
             THEN pc' = "card" /\ UNCHANGED <<writeErr, exitCode>>
             ELSE /\ pc' = AfterWriteError.pc
                  /\ exitCode' = AfterWriteError.exitCode
                  /\ writeErr' = TRUE
    /\ UNCHANGED <<argv, env, now, args, webhook_url, page, repos, records, card, tag,
                   token, trace>>

\* lines 462-467
BuildCard ==
    /\ pc = "card"
    /\ card' = build_feishu_card(repos, args.language, args.since, args.limit)
    /\ trace' = Append(trace, "CardBuilder")
    /\ pc' = "send"
    /\ UNCHANGED <<argv, env, now, args, webhook_url, page, repos, records, tag, token,
                   calls, writeErr, exitCode>>

\* lines 469-475 with send_card_to_feishu (lines 362-381); a run that reaches
\* the end of main exits 0
SendCard ==
    /\ pc = "send"
    /\ \E outcome \in PostOutcomes :
          /\ calls' = Append(calls, Call("WEBHOOK", outcome))
          /\ Exit(IF outcome = "ok" THEN 0 ELSE 1)
    /\ trace' = Append(trace, "CardSender")
    /\ UNCHANGED <<argv, env, now, args, webhook_url, page, repos, records, card, tag,
                   token, writeErr>>

Next ==
    \/ ParseArgs
    \/ ResolveWebhook
    \/ FetchTrending
    \/ CheckRepos
    \/ BitableGate
    \/ BuildRecords
    \/ WriteRecords
    \/ GetToken
    \/ BatchCreate
    \/ BuildCard
    \/ SendCard

Spec == InitMain /\ [][Next]_vars

----------------------------------------------------------------------------
(* Vocabulary of the claims about a run *)

Issued(req) == \E i \in 1 .. Len(calls) : calls[i].req = req

Failed(req) == \E i \in 1 .. Len(calls) : calls[i].req = req /\ calls[i].result # "ok"

Succeeded(req) == \E i \in 1 .. Len(calls) : calls[i].req = req /\ calls[i].result = "ok"

TimesIssued(req) == Cardinality({i \in 1 .. Len(calls) : calls[i].req = req})

Ran(component) == \E i \in 1 .. Len(trace) : trace[i] = component

TimesRan(component) == Cardinality({i \in 1 .. Len(trace) : trace[i] = component})

Components ==
    {"Fetcher", "Extractor", "TokenProvider", "TableWriter", "CardBuilder", "CardSender"}

Requests == {"GET", "TOKEN", "BATCH", "WEBHOOK"}

\* the place of a component in the fixed order; the Token Provider works
\* inside the Table Writer and shares its place
Place(component) ==
    CASE component = "Fetcher" -> 1
      [] component = "Extractor" -> 2
      [] component \in {"TokenProvider", "TableWriter"} -> 3
      [] component = "CardBuilder" -> 4
      [] component = "CardSender" -> 5

InOrder == \A i, j \in 1 .. Len(trace) : i < j => Place(trace[i]) <= Place(trace[j])

\* neither --webhook nor FEISHU_WEBHOOK_URL holds a URL
WebhookMissing == ~Truthy(argv.webhook) /\ ~Truthy(env.webhook)

\* the parser takes the command line: no --help, a --since among the choices,
\* an integer --limit
CommandLineAccepted ==
    /\ ~argv.help
    /\ IsNone(argv.since) \/ Val(argv.since) \in {"daily", "weekly", "monthly"}
    /\ argv.limit.given => argv.limit.int

AllTableSettings ==
    /\ Truthy(env.app_id) /\ Truthy(env.app_secret)
    /\ Truthy(env.app_token) /\ Truthy(env.table_id)

TableWriteFailed == Failed("TOKEN") \/ Failed("BATCH")

----------------------------------------------------------------------------
(* C1: exit codes *)

\* C1 as stated: in every run the exit code is 1 exactly when the webhook URL
\* is missing, the fetch raises or the send raises, and 0 otherwise.
C1_AsStated ==
    pc = "exited" =>
        exitCode = Some(IF WebhookMissing \/ Failed("GET") \/ Failed("WEBHOOK")
                        THEN 1 ELSE 0)

\* C1 amended: in every run whose command line the parser accepts the exit code
\* is 1 exactly when the webhook URL is missing, the fetch raises or the send
\* raises, and 0 otherwise (zero records and a failed table write included); a
\* run whose command line is not accepted exits with 0 (--help) or 2 (usage
\* error) before any request.
C1_ExitCode ==
    pc = "exited" =>
        IF CommandLineAccepted
        THEN exitCode = Some(IF WebhookMissing \/ Failed("GET") \/ Failed("WEBHOOK")
                             THEN 1 ELSE 0)
        ELSE /\ exitCode \in {Some(0), Some(2)}
             /\ exitCode = Some(0) => argv.help
             /\ calls = << >>

\* a run that lost the table write and still exits 0, the webhook URL coming
\* from the environment alone
C1_Witness ==
    /\ pc = "exited"
    /\ ~Truthy(argv.webhook)
    /\ TableWriteFailed
    /\ Succeeded("WEBHOOK")
    /\ exitCode = Some(0)

----------------------------------------------------------------------------
(* C2: a failed table write does not stop the card *)

\* C2: once the table write has failed, the run goes on to build the card and
\* to POST it to the webhook, and exits 0 or 1 as the card send succeeds or fails.
C2_WriteFailureIsCaught ==
    TableWriteFailed =>
        /\ writeErr
        /\ pc \in {"card", "send", "exited"}
        /\ pc \in {"send", "exited"} =>
              /\ Ran("CardBuilder")
              /\ Len(card.entries) = Len(Slice(repos, args.limit))
        /\ pc = "exited" =>
              /\ TimesIssued("WEBHOOK") = 1
              /\ calls[Len(calls)].req = "WEBHOOK"
              /\ exitCode = Some(IF Succeeded("WEBHOOK") THEN 0 ELSE 1)

\* batch-create answered with a non-zero code and the card was still sent
C2_Witness ==
    /\ pc = "exited"
    /\ \E i \in 1 .. Len(calls) : calls[i] = Call("BATCH", "code_nonzero")
    /\ Succeeded("WEBHOOK")
    /\ exitCode = Some(0)

----------------------------------------------------------------------------
(* C7: how often and in what order the components run *)

----------------------------------------------------------------------------
(* C9: when the table requests are issued *)

\* C9: batch-create is issued only with a non-empty row list, the four table
\* settings set and an earlier token request of the run answered with code 0;
\* with an empty row list the writer issues neither request and returns
\* without error.
C9_BatchGuard ==
    /\ Issued("BATCH") =>
          /\ records # << >>
          /\ AllTableSettings
          /\ \E i, j \in 1 .. Len(calls) :
                i < j /\ calls[i] = Call("TOKEN", "ok") /\ calls[j].req = "BATCH"
    /\ (Ran("TableWriter") /\ records = << >>) =>
          /\ ~Issued("TOKEN")
          /\ ~Issued("BATCH")
          /\ ~writeErr
          /\ pc \in {"write", "card", "send", "exited"}

\* the writer ran on an empty row list cut from a non-empty record list
C9_Witness ==
    /\ pc = "exited"
    /\ Ran("TableWriter")
    /\ repos # << >>
    /\ records = << >>
    /\ Issued("WEBHOOK")

----------------------------------------------------------------------------
(* C10: requests are guarded by the earlier steps *)

\* C10: the trending GET is issued only with a webhook URL configured, and the
\* token request, batch-create and the webhook POST only after a GET that
\* succeeded and yielded at least one record.
C10_GuardedSideEffects ==
    /\ WebhookMissing => calls = << >>
    /\ \A i \in 1 .. Len(calls) :
          calls[i].req \in {"TOKEN", "BATCH", "WEBHOOK"} =>
              /\ i > 1
              /\ calls[1] = Call("GET", "ok")
              /\ repos # << >>

\* a page of title-less blocks only: the GET succeeded and nothing else was sent
C10_Witness ==
    /\ pc = "exited"
    /\ page # << >>
    /\ repos = << >>
    /\ calls = <<Call("GET", "ok")>>
    /\ exitCode = Some(0)

----------------------------------------------------------------------------
(* Vocabulary of the claims about the extractor *)

\* a block with a title element: an h2 holding a link with a non-empty href
WellFormed(b) == b.h2 /\ b.a /\ b.href # None /\ b.href # Some(<< >>)

\* a block without a title element
TitleLess(b) == ~b.h2

\* a figure is numeric when it is an optional sign followed by decimal digits
Numeric(f) ==
    LET body == IF f # << >> /\ f[1] \in {"-", "+"} THEN Tail(f) ELSE f
    IN  body # << >> /\ \A i \in 1 .. Len(body) : body[i] \in Digits

\* the total-star figure: the element's text without its thousands separators
\* and the blanks around it
StarFigure(text) == Strip(Remove(text, ","))

\* the period-star figure: the first word of the element's text without its
\* thousands separators
TodayFigure(text) == Remove(SplitFirst(Strip(text), " "), ",")

----------------------------------------------------------------------------
(* C3: the limit caps the rows and the card entries *)

\* C3 as stated: for every integer limit k and N records the builders produce
\* at most k rows and card entries, and exactly k, ranked 1..k in extraction
\* order, when N > k.
C3_AsStated ==
    pc = "card_done" =>
        LET k == args.limit
            N == Len(repos)
        IN  /\ Len(records) <= k
            /\ Len(card.entries) <= k
            /\ N > k =>
                  /\ Len(records) = k
                  /\ Len(card.entries) = k
                  /\ \A i \in 1 .. k :
                        /\ records[i].Rank = i
                        /\ records[i].Repo = repos[i].name
                        /\ card.entries[i].idx = i
                        /\ card.entries[i].name = repos[i].name

----------------------------------------------------------------------------
(* C4: blocks without a title are skipped *)

\* C4: on a page made of well-formed blocks and blocks without a title element
\* the extractor returns one record per well-formed block, in page order, and
\* the same records as on the page with the title-less blocks taken out.
C4_OneRecordPerWellFormedBlock ==
    (pc = "fetch_done" /\ \A i \in 1 .. Len(page) : WellFormed(page[i]) \/ TitleLess(page[i]))
    => LET wf == SelectSeq(page, WellFormed)
       IN  /\ Len(repos) = Len(wf)
           /\ \A i \in 1 .. Len(wf) :
                 repos[i].url = <<"https://github.com">> \o Strip(Val(wf[i].href))
           /\ repos = ExtractAll(wf)

\* two well-formed blocks around a title-less one
C4_Witness ==
    /\ pc = "fetch_done"
    /\ page = <<BlockAB, BlockNoH2, BlockCD>>
    /\ Len(repos) = 2
    /\ repos[1].name = <<"a", "/", "b">>
    /\ repos[2].name = <<"c", "/", "d">>

----------------------------------------------------------------------------
(* C5: a star figure that is not numeric *)

\* C5: every block with a title yields a record; a total-star or period-star
\* figure that is not numeric leaves that field None, and the rest of the
\* record is what it is for a numeric figure.
C5_NonNumericFigureIsAbsent ==
    pc = "fetch_done" =>
        LET titled == SelectSeq(page, WellFormed)
        IN  /\ Len(repos) = Len(titled)
            /\ \A i \in 1 .. Len(titled) :
                  LET b == titled[i]
                  IN  /\ (b.starText # None /\ ~Numeric(StarFigure(Val(b.starText)))) =>
                            /\ repos[i].stars = None
                            /\ [repos[i] EXCEPT !.stars = Some(5)]
                                 = ExtractBlock([b EXCEPT !.starText = Some(<<"5">>)])
                      /\ (b.todayText # None /\ ~Numeric(TodayFigure(Val(b.todayText)))) =>
                            /\ repos[i].stars_today = None
                            /\ [repos[i] EXCEPT !.stars_today = Some(5)]
                                 = ExtractBlock([b EXCEPT !.todayText = Some(<<"5">>)])

\* a total-star text of "5k" beside a period-star text of "5 k"
C5_Witness ==
    /\ pc = "fetch_done"
    /\ Len(page) = 1
    /\ page[1].starText = Some(<<"5", "k">>)
    /\ page[1].todayText = Some(<<"5", " ", "k">>)
    /\ Len(repos) = 1
    /\ repos[1].stars = None
    /\ repos[1].stars_today = Some(5)

----------------------------------------------------------------------------
(* C6: star counts are not negative *)

\* C6 as stated: in every record returned, stars and stars_today are each
\* absent or a non-negative integer.
C6_AsStated ==
    pc = "fetch_done" =>
        \A i \in 1 .. Len(repos) :
            /\ repos[i].stars = None \/ Val(repos[i].stars) >= 0
            /\ repos[i].stars_today = None \/ Val(repos[i].stars_today) >= 0

----------------------------------------------------------------------------
(* C8: the source tag *)

\* ISO 8601 week numbering, stated from the calendar: weeks run Monday to
\* Sunday, a week belongs to the year that holds its Thursday, and the weeks of
\* a year are numbered from 1.  Days are counted from Monday 2024-01-01.
YearLength(y) == IF IsLeap(y) THEN 366 ELSE 365

RECURSIVE YearStart(_)
YearStart(y) == IF y <= 2024 THEN 0 ELSE YearStart(y - 1) + YearLength(y - 1)

RECURSIVE MonthStart(_, _)
MonthStart(y, m) == IF m = 1 THEN 0 ELSE MonthStart(y, m - 1) + DaysInMonth(y, m - 1)

DayIndex(dt) == YearStart(dt.y) + MonthStart(dt.y, dt.m) + (dt.d - 1)

ThursdayOfWeek(dt) == DayIndex(dt) - (DayIndex(dt) % 7) + 3

IsoYearOf(dt) ==
    CHOOSE y \in (dt.y - 1) .. (dt.y + 1) :
        YearStart(y) <= ThursdayOfWeek(dt) /\ ThursdayOfWeek(dt) < YearStart(y + 1)

IsoWeekOf(dt) == ((ThursdayOfWeek(dt) - YearStart(IsoYearOf(dt))) \div 7) + 1

TwoDigits(n) == <<DigitChar((n \div 10) % 10), DigitChar(n % 10)>>

FourDigits(n) == TwoDigits(n \div 100) \o TwoDigits(n % 100)

ExpectedBucket(since, dt) ==
    CASE since = "weekly" ->
            FourDigits(IsoYearOf(dt)) \o <<"-", "W">> \o TwoDigits(IsoWeekOf(dt))
      [] since = "monthly" -> FourDigits(dt.y) \o <<"-">> \o TwoDigits(dt.m)
      [] since = "daily" ->
            FourDigits(dt.y) \o <<"-">> \o TwoDigits(dt.m) \o <<"-">> \o TwoDigits(dt.d)

\* the language filter as given, "all" when there is none
GivenLanguage(language) ==
    IF IsNone(language) \/ Val(language) = << >> THEN <<"a", "l", "l">> ELSE Val(language)

\* the language filter in lower case, "all" when there is none
LowerCaseLanguage(language) ==
    CASE language = Some(<<"G", "o">>) -> <<"g", "o">>
      [] language = Some(<<"R">>) -> <<"r">>
      [] OTHER -> GivenLanguage(language)

\* C8 as stated: the tag is "github-trending:<period>:<bucket>:<language or all>",
\* the bucket being the ISO year and week, the year and month, or the date, and
\* the last component being the language filter exactly as given.
C8_AsStated ==
    pc = "tag_done" =>
        tag = <<"github-trending", ":", args.since, ":">> \o ExpectedBucket(args.since, now)
                \o <<":">> \o GivenLanguage(args.language)

\* C8 amended: the same tag, the last component being the language filter in
\* lower case ("all" when no language is given).
C8_SourceTag ==
    pc = "tag_done" =>
        tag = <<"github-trending", ":", args.since, ":">> \o ExpectedBucket(args.since, now)
                \o <<":">> \o LowerCaseLanguage(args.language)

\* a weekly tag on 2027-01-01, which lies in ISO week 53 of 2026, for --lang Go
C8_Witness ==
    /\ pc = "tag_done"
    /\ args.since = "weekly"
    /\ args.language = Some(<<"G", "o">>)
    /\ now = [y |-> 2027, m |-> 1, d |-> 1]
    /\ tag = <<"github-trending", ":", "weekly", ":", "2", "0", "2", "6", "-", "W",
               "5", "3", ":", "g", "o">>

====
